---- MODULE Spec2Model ----
(***************************************************************************)
(* A model of the Merkle-enabled blockchain ledger of src/main.go.         *)
(*                                                                         *)
(* Strings are sequences of character codes (ASCII), so that string        *)
(* concatenation, fmt.Sprintf's renderings and strings.HasPrefix are       *)
(* computed as the code computes them.  sha256.Sum256 followed by          *)
(* fmt.Sprintf("%x") is modelled by Sum256Hex: a deterministic digest of   *)
(* the bytes, rendered as DigestLen lower-case hex characters.  The digest *)
(* value is drawn from a reduced space (HashSpace) so that the             *)
(* proof-of-work search is a few steps long instead of about 65536.        *)
(***************************************************************************)
EXTENDS Integers, Sequences, FiniteSets, TLC

\* ------------------------------------------------------------------ bounds

\* Width, in hex characters, of a rendered digest (64 in the program).
DigestLen == 8
\* One digest in DifficultyOdds has leadingZeros leading '0' characters.
DifficultyOdds == 4
\* The nonce search of the model gives up above this nonce.
MaxNonce == 60
\* The ledger holds at most this many transactions, over all its blocks.
MaxLedgerTx == 4

\* CreateMerkleRoot is applied to lists of at most this many strings.
MaxMerkleLen == 4

\* ------------------------------------------------------- program constants

\* leadingZeros := 4 in FindValidNonce.
leadingZeros == 4
\* NumTransactionsPerBlock: 5 in main.
DefaultNumTransactionsPerBlock == 5

\* ------------------------------------------------------------- characters

Chr0 == 48
ChrA == 97
ChrSpace == 32
ChrLBracket == 91
ChrRBracket == 93

\* The empty string.
EmptyString == << >>

\* The strings "a", "b" and "aa".
TxA == << ChrA >>
TxB == << ChrA + 1 >>
TxAA == << ChrA, ChrA >>

\* The transactions a caller of the ledger submits.
TxSet == { TxA, TxB }

\* ------------------------------------------------------------- formatting

RECURSIVE Pow16(_)
Pow16(k) == IF k = 0 THEN 1 ELSE 16 * Pow16(k - 1)

\* One hex digit as fmt's %x prints it: 0-9, a-f.
HexChar(d) == IF d < 10 THEN Chr0 + d ELSE ChrA + (d - 10)

\* fmt.Sprintf("%x", hash): fixed width, most significant digit first.
RECURSIVE SprintfHex(_, _)
SprintfHex(v, n) ==
    IF n = 0 THEN << >> ELSE SprintfHex(v \div 16, n - 1) \o << HexChar(v % 16) >>

\* fmt's %d for a non-negative int.
RECURSIVE SprintfDec(_)
SprintfDec(n) ==
    IF n < 10 THEN << Chr0 + n >> ELSE SprintfDec(n \div 10) \o << Chr0 + (n % 10) >>

\* The elements of a []string joined by single spaces.
RECURSIVE JoinSpace(_)
JoinSpace(ts) ==
    IF Len(ts) = 0 THEN << >>
    ELSE IF Len(ts) = 1 THEN ts[1]
    ELSE ts[1] \o << ChrSpace >> \o JoinSpace(Tail(ts))

\* fmt's %v for a []string: [a b c].
SprintfV(ts) == << ChrLBracket >> \o JoinSpace(ts) \o << ChrRBracket >>

\* ---------------------------------------------------------------- hashing

\* The number of digest values of the model.
HashSpace == DifficultyOdds * Pow16(DigestLen - leadingZeros)

\* The digest of a byte string, as a number.
RECURSIVE Absorb(_, _, _)
Absorb(h, data, i) ==
    IF i > Len(data) THEN h
    ELSE Absorb((h * 131 + data[i] + 7 * i) % HashSpace, data, i + 1)

Sum256(data) ==
    LET h1 == Absorb(5381 % HashSpace, data, 1)
        h2 == (h1 * 197 + (h1 \div 64) + Len(data)) % HashSpace
    IN  (h2 * 61 + (h2 \div 1024)) % HashSpace

\* fmt.Sprintf("%x", sha256.Sum256([]byte(data))).
Sum256Hex(data) == SprintfHex(Sum256(data), DigestLen)

\* strings.HasPrefix.
HasPrefix(s, prefix) ==
    /\ Len(s) >= Len(prefix)
    /\ SubSeq(s, 1, Len(prefix)) = prefix

\* strings.Repeat("0", n).
RepeatZero(n) == [i \in 1..n |-> Chr0]

\* ------------------------------------------------------------ Merkle tree

\* The loop of CreateMerkleRoot: i runs over 0, 2, 4, ... and newTransactions
\* collects the digest of each pair, an odd tail paired with "".
\* MerkleLoop with the bug of carrying an odd tail up unhashed.
RECURSIVE MerkleLoopOddTailUnhashed(_, _, _)
MerkleLoopOddTailUnhashed(transactions, i, newTransactions) ==
    IF ~(i < Len(transactions)) THEN newTransactions
    ELSE IF i + 1 < Len(transactions)
    THEN MerkleLoopOddTailUnhashed(transactions, i + 2,
             Append(newTransactions, Sum256Hex(transactions[i + 1] \o transactions[i + 2])))
    ELSE Append(newTransactions, transactions[i + 1])

\* MerkleLoop with the bug of concatenating each pair second first.
RECURSIVE MerkleLoopSwapped(_, _, _)
MerkleLoopSwapped(transactions, i, newTransactions) ==
    IF ~(i < Len(transactions)) THEN newTransactions
    ELSE LET first == transactions[i + 1]
             second == IF i + 1 < Len(transactions) THEN transactions[i + 2] ELSE EmptyString
         IN  MerkleLoopSwapped(transactions, i + 2,
                 Append(newTransactions, Sum256Hex(second \o first)))

RECURSIVE MerkleLoop(_, _, _)
MerkleLoop(transactions, i, newTransactions) ==
    IF ~(i < Len(transactions)) THEN newTransactions
    ELSE LET first == transactions[i + 1]
             second == IF i + 1 < Len(transactions) THEN transactions[i + 2] ELSE EmptyString
             combined == first \o second
             newHash == Sum256Hex(combined)
         IN  MerkleLoop(transactions, i + 2, Append(newTransactions, newHash))

RECURSIVE CreateMerkleRoot(_)
CreateMerkleRoot(transactions) ==
    IF Len(transactions) = 0 THEN EmptyString
    ELSE IF Len(transactions) = 1 THEN transactions[1]
    ELSE CreateMerkleRoot(MerkleLoop(transactions, 0, << >>))

\* ------------------------------------------------------------- block hash

CreateHash(transactions, nonce, previousHash, merkleRoot) ==
    LET data == SprintfV(transactions) \o SprintfDec(nonce) \o previousHash \o merkleRoot
    IN  Sum256Hex(data)

\* --------------------------------------------------------- proof of work

\* The loop of FindValidNonce from a given nonce on.  The program's loop has no
\* bound; the model's stops above MaxNonce and answers MaxNonce + 1.
RECURSIVE NonceLoop(_, _, _)
NonceLoop(nonce, merkleRoot, previousHash) ==
    IF nonce > MaxNonce THEN nonce
    ELSE LET prefix == RepeatZero(leadingZeros)
             hash == CreateHash(<< >>, nonce, previousHash, merkleRoot)
         IN  IF HasPrefix(hash, prefix) THEN nonce
             ELSE NonceLoop(nonce + 1, merkleRoot, previousHash)

\* FindValidNonce with the bug of starting the search at 1.
FindValidNonceFromOne(merkleRoot, previousHash) == NonceLoop(1, merkleRoot, previousHash)

\* FindValidNonce: the first nonce from 0 on whose search hash meets the prefix.
FindValidNonce(merkleRoot, previousHash) == NonceLoop(0, merkleRoot, previousHash)

\* ------------------------------------------------------------------ state

VARIABLES
    Blocks,                   \* bc.Blocks
    NumTransactionsPerBlock,  \* bc.NumTransactionsPerBlock
    BlockHashMin,             \* bc.BlockHashMin
    BlockHashMax,             \* bc.BlockHashMax
    lastOp,                   \* the operation that ran last
    lastIndex,                \* the index it was given (ChangeBlock), else 0
    ret,                      \* what it returned; for a void operation, that it printed no diagnostic
    changed,                  \* some ChangeBlock has replaced a block
    merkle                    \* a call of CreateMerkleRoot: its argument, its result, whether it has run

vars ==
    << Blocks, NumTransactionsPerBlock, BlockHashMin, BlockHashMax,
       lastOp, lastIndex, ret, changed, merkle >>

\* The configuration of the ledger.
config == << NumTransactionsPerBlock, BlockHashMin, BlockHashMax >>

\* Block{}: the zero value.
ZeroBlock ==
    [ Transaction |-> << >>, Nonce |-> 0, PreviousHash |-> EmptyString,
      CurrentHash |-> EmptyString, MerkleRoot |-> EmptyString ]

\* GetRecentBlock with the bug of always answering Block{}.
GetRecentBlockZero(blocks) == ZeroBlock

\* GetRecentBlock with the bug of answering the first block.
GetRecentBlockFirst(blocks) ==
    IF Len(blocks) = 0 THEN ZeroBlock ELSE blocks[1]

GetRecentBlock(blocks) ==
    IF Len(blocks) = 0 THEN ZeroBlock ELSE blocks[Len(blocks)]

\* The number of transactions the ledger holds.
RECURSIVE TotalTx(_)
TotalTx(blocks) ==
    IF Len(blocks) = 0 THEN 0 ELSE Len(blocks[1].Transaction) + TotalTx(Tail(blocks))

\* The loop of VerifyChain, i as in the program (0-based).
RECURSIVE VerifyLoop(_, _)
VerifyLoop(blocks, i) ==
    IF ~(i < Len(blocks)) THEN TRUE
    ELSE IF blocks[i + 1].PreviousHash # blocks[i].CurrentHash THEN FALSE
    ELSE VerifyLoop(blocks, i + 1)

\* VerifyChain with the bug of starting its loop at 2.
VerifyChainFromTwo(blocks) == VerifyLoop(blocks, 2)

VerifyChain(blocks) == VerifyLoop(blocks, 1)

\* The batches a caller submits: none, one or two transactions.
Batches == { << >>, << TxA >>, << TxA, TxB >> }

\* The thresholds a caller asks for.
Thresholds == { -1, 0, 1, 2 }

\* The hash ranges a caller sets: "0000" to "00000" as main does, and "00" to "ff".
HashRanges == { << RepeatZero(4), RepeatZero(5) >>, << RepeatZero(2), << ChrA + 5, ChrA + 5 >> >> }

\* No call of CreateMerkleRoot under way.
NoMerkle == [ transactions |-> << >>, root |-> EmptyString, done |-> FALSE ]

\* main, up to its menu loop.
Init ==
    /\ Blocks = << >>
    /\ NumTransactionsPerBlock = DefaultNumTransactionsPerBlock
    /\ BlockHashMin = RepeatZero(4)
    /\ BlockHashMax = RepeatZero(5)
    /\ lastOp = "main"
    /\ lastIndex = 0
    /\ ret = TRUE
    /\ changed = FALSE
    /\ merkle = NoMerkle

\* ---------------------------------------------------------------- actions

\* NewBlock_blockOn with the bug of storing the hash the nonce search tested,
\* that of the empty transaction list.
NewBlock_blockOnSearchHash(blocks, transactions) ==
    LET previousBlock == GetRecentBlock(blocks)
        previousHash == previousBlock.CurrentHash
        merkleRoot == CreateMerkleRoot(transactions)
        nonce == FindValidNonce(merkleRoot, previousHash)
        currentHash == CreateHash(<< >>, nonce, previousHash, merkleRoot)
    IN  [ Transaction |-> transactions, Nonce |-> nonce, PreviousHash |-> previousHash,
          CurrentHash |-> currentHash, MerkleRoot |-> merkleRoot ]

\* The block NewBlock builds from a batch on a ledger with the given blocks.
NewBlock_blockOn(blocks, transactions) ==
    LET previousBlock == GetRecentBlock(blocks)
        previousHash == previousBlock.CurrentHash
        merkleRoot == CreateMerkleRoot(transactions)
        nonce == FindValidNonce(merkleRoot, previousHash)
        currentHash == CreateHash(transactions, nonce, previousHash, merkleRoot)
    IN  [ Transaction |-> transactions, Nonce |-> nonce, PreviousHash |-> previousHash,
          CurrentHash |-> currentHash, MerkleRoot |-> merkleRoot ]

\* The block NewBlock builds from a batch: its local variable block.
NewBlock_block(transactions) == NewBlock_blockOn(Blocks, transactions)

\* NewBlock with the bug of not testing the batch against the threshold.
NewBlockNoThreshold(transactions) ==
    /\ lastOp' = "NewBlock"
    /\ lastIndex' = 0
    /\ UNCHANGED << config, changed, merkle >>
    /\ IF Len(transactions) = 0
       THEN /\ ret' = FALSE
            /\ UNCHANGED Blocks
       ELSE \E block \in { NewBlock_block(transactions) } :
                /\ TotalTx(Blocks) + Len(transactions) <= MaxLedgerTx
                /\ block.Nonce <= MaxNonce
                /\ Blocks' = Append(Blocks, block)
                /\ ret' = TRUE

\* NewBlock with the bug of enforcing the hash range: it appends only a block
\* whose CurrentHash starts with BlockHashMin.
NewBlockEnforcesRange(transactions) ==
    /\ lastOp' = "NewBlock"
    /\ lastIndex' = 0
    /\ UNCHANGED << config, changed, merkle >>
    /\ IF Len(transactions) = 0
       THEN /\ ret' = FALSE
            /\ UNCHANGED Blocks
       ELSE IF Len(transactions) >= NumTransactionsPerBlock
       THEN \E block \in { NewBlock_block(transactions) } :
                /\ TotalTx(Blocks) + Len(transactions) <= MaxLedgerTx
                /\ block.Nonce <= MaxNonce
                /\ IF HasPrefix(block.CurrentHash, BlockHashMin)
                   THEN Blocks' = Append(Blocks, block) /\ ret' = TRUE
                   ELSE UNCHANGED Blocks /\ ret' = FALSE
       ELSE /\ ret' = FALSE
            /\ UNCHANGED Blocks

\* NewBlock with the bug of inserting the new block at the front of the ledger.
NewBlockAtFront(transactions) ==
    /\ lastOp' = "NewBlock"
    /\ lastIndex' = 0
    /\ UNCHANGED << config, changed, merkle >>
    /\ IF Len(transactions) = 0
       THEN /\ ret' = FALSE
            /\ UNCHANGED Blocks
       ELSE IF Len(transactions) >= NumTransactionsPerBlock
       THEN \E block \in { NewBlock_block(transactions) } :
                /\ TotalTx(Blocks) + Len(transactions) <= MaxLedgerTx
                /\ block.Nonce <= MaxNonce
                /\ Blocks' = << block >> \o Blocks
                /\ ret' = TRUE
       ELSE /\ ret' = FALSE
            /\ UNCHANGED Blocks

\* NewBlock: a batch that meets the threshold becomes the ledger's last block.
NewBlock(transactions) ==
    /\ lastOp' = "NewBlock"
    /\ lastIndex' = 0
    /\ UNCHANGED << config, changed, merkle >>
    /\ IF Len(transactions) = 0
       THEN /\ ret' = FALSE
            /\ UNCHANGED Blocks
       ELSE IF Len(transactions) >= NumTransactionsPerBlock
       THEN \E block \in { NewBlock_block(transactions) } :
                /\ TotalTx(Blocks) + Len(transactions) <= MaxLedgerTx
                /\ block.Nonce <= MaxNonce
                /\ Blocks' = Append(Blocks, block)
                /\ ret' = TRUE
       ELSE /\ ret' = FALSE
            /\ UNCHANGED Blocks

\* ChangeBlock_newBlock with the bug of keeping the old block's CurrentHash.
ChangeBlock_newBlockOldHash(index, newTransaction) ==
    LET oldBlock == Blocks[index + 1]
        transactions == Append(oldBlock.Transaction, newTransaction)
        merkleRoot == CreateMerkleRoot(transactions)
        previousHash == IF index > 0 THEN Blocks[index].CurrentHash ELSE EmptyString
        nonce == FindValidNonce(merkleRoot, previousHash)
    IN  [ Transaction |-> transactions, Nonce |-> nonce, PreviousHash |-> previousHash,
          CurrentHash |-> oldBlock.CurrentHash, MerkleRoot |-> merkleRoot ]

\* ChangeBlock_newBlockOn with the bug of linking the first block to its own
\* old hash instead of the empty string.
ChangeBlock_newBlockOnNoSentinel(blocks, index, newTransaction) ==
    LET oldBlock == blocks[index + 1]
        transactions == Append(oldBlock.Transaction, newTransaction)
        merkleRoot == CreateMerkleRoot(transactions)
        previousHash == IF index > 0 THEN blocks[index].CurrentHash ELSE oldBlock.CurrentHash
        nonce == FindValidNonce(merkleRoot, previousHash)
        currentHash == CreateHash(transactions, nonce, previousHash, merkleRoot)
    IN  [ Transaction |-> transactions, Nonce |-> nonce, PreviousHash |-> previousHash,
          CurrentHash |-> currentHash, MerkleRoot |-> merkleRoot ]

\* ChangeBlock_newBlockOn with the bug of keeping the old block's PreviousHash.
ChangeBlock_newBlockOnKeepsLink(blocks, index, newTransaction) ==
    LET oldBlock == blocks[index + 1]
        transactions == Append(oldBlock.Transaction, newTransaction)
        merkleRoot == CreateMerkleRoot(transactions)
        previousHash == oldBlock.PreviousHash
        nonce == FindValidNonce(merkleRoot, previousHash)
        currentHash == CreateHash(transactions, nonce, previousHash, merkleRoot)
    IN  [ Transaction |-> transactions, Nonce |-> nonce, PreviousHash |-> previousHash,
          CurrentHash |-> currentHash, MerkleRoot |-> merkleRoot ]

\* The block ChangeBlock builds for an index in range on a ledger with the given blocks.
ChangeBlock_newBlockOn(blocks, index, newTransaction) ==
    LET oldBlock == blocks[index + 1]
        transactions == Append(oldBlock.Transaction, newTransaction)
        merkleRoot == CreateMerkleRoot(transactions)
        previousHash == IF index > 0 THEN blocks[index].CurrentHash ELSE EmptyString
        nonce == FindValidNonce(merkleRoot, previousHash)
        currentHash == CreateHash(transactions, nonce, previousHash, merkleRoot)
    IN  [ Transaction |-> transactions, Nonce |-> nonce, PreviousHash |-> previousHash,
          CurrentHash |-> currentHash, MerkleRoot |-> merkleRoot ]

\* The block ChangeBlock builds for an index in range: its local variable newBlock.
ChangeBlock_newBlock(index, newTransaction) == ChangeBlock_newBlockOn(Blocks, index, newTransaction)

\* ChangeBlock with the bug of answering true for an index out of range.
ChangeBlockAlwaysTrue(index, newTransaction) ==
    /\ lastOp' = "ChangeBlock"
    /\ lastIndex' = index
    /\ UNCHANGED << config, merkle >>
    /\ IF index >= 0 /\ index < Len(Blocks)
       THEN \E newBlock \in { ChangeBlock_newBlock(index, newTransaction) } :
                /\ TotalTx(Blocks) + 1 <= MaxLedgerTx
                /\ newBlock.Nonce <= MaxNonce
                /\ Blocks' = [Blocks EXCEPT ![index + 1] = newBlock]
                /\ ret' = TRUE
                /\ changed' = TRUE
       ELSE /\ ret' = TRUE
            /\ UNCHANGED << Blocks, changed >>

\* ChangeBlock with the repair of relinking the block after the rewritten one.
ChangeBlockRelinksNext(index, newTransaction) ==
    /\ lastOp' = "ChangeBlock"
    /\ lastIndex' = index
    /\ UNCHANGED << config, merkle >>
    /\ IF index >= 0 /\ index < Len(Blocks)
       THEN \E newBlock \in { ChangeBlock_newBlock(index, newTransaction) } :
                /\ TotalTx(Blocks) + 1 <= MaxLedgerTx
                /\ newBlock.Nonce <= MaxNonce
                /\ Blocks' = [ k \in 1..Len(Blocks) |->
                                  IF k = index + 1 THEN newBlock
                                  ELSE IF k = index + 2
                                  THEN [ Blocks[k] EXCEPT !.PreviousHash = newBlock.CurrentHash ]
                                  ELSE Blocks[k] ]
                /\ ret' = TRUE
                /\ changed' = TRUE
       ELSE /\ ret' = FALSE
            /\ UNCHANGED << Blocks, changed >>

\* ChangeBlock: the block at index is rebuilt with one more transaction.
ChangeBlock(index, newTransaction) ==
    /\ lastOp' = "ChangeBlock"
    /\ lastIndex' = index
    /\ UNCHANGED << config, merkle >>
    /\ IF index >= 0 /\ index < Len(Blocks)
       THEN \E newBlock \in { ChangeBlock_newBlock(index, newTransaction) } :
                /\ TotalTx(Blocks) + 1 <= MaxLedgerTx
                /\ newBlock.Nonce <= MaxNonce
                /\ Blocks' = [Blocks EXCEPT ![index + 1] = newBlock]
                /\ ret' = TRUE
                /\ changed' = TRUE
       ELSE /\ ret' = FALSE
            /\ UNCHANGED << Blocks, changed >>

\* Menu option 6: a call of VerifyChain.
VerifyChainOp ==
    /\ lastOp' = "VerifyChain"
    /\ lastIndex' = 0
    /\ ret' = VerifyChain(Blocks)
    /\ UNCHANGED << Blocks, config, changed, merkle >>

\* setNumberOfTransactionsPerBlock with the bug of accepting 0.
setNumberAcceptsZero(numTransactions) ==
    /\ lastOp' = "setNumberOfTransactionsPerBlock"
    /\ lastIndex' = 0
    /\ UNCHANGED << Blocks, BlockHashMin, BlockHashMax, changed, merkle >>
    /\ IF numTransactions >= 0
       THEN /\ NumTransactionsPerBlock' = numTransactions
            /\ ret' = TRUE
       ELSE /\ ret' = FALSE
            /\ UNCHANGED NumTransactionsPerBlock

setNumberOfTransactionsPerBlock(numTransactions) ==
    /\ lastOp' = "setNumberOfTransactionsPerBlock"
    /\ lastIndex' = 0
    /\ UNCHANGED << Blocks, BlockHashMin, BlockHashMax, changed, merkle >>
    /\ IF numTransactions >= 1
       THEN /\ NumTransactionsPerBlock' = numTransactions
            /\ ret' = TRUE
       ELSE /\ ret' = FALSE
            /\ UNCHANGED NumTransactionsPerBlock

setBlockHashRangeForBlockCreation(min, max) ==
    /\ lastOp' = "setBlockHashRangeForBlockCreation"
    /\ lastIndex' = 0
    /\ BlockHashMin' = min
    /\ BlockHashMax' = max
    /\ ret' = TRUE
    /\ UNCHANGED << Blocks, NumTransactionsPerBlock, changed, merkle >>

DoNewBlock == \E transactions \in Batches : NewBlock(transactions)

DoChangeBlock == \E index \in -1..MaxLedgerTx : \E t \in TxSet : ChangeBlock(index, t)

DoSetNumber == \E n \in Thresholds : setNumberOfTransactionsPerBlock(n)

DoSetRange == \E r \in HashRanges : setBlockHashRangeForBlockCreation(r[1], r[2])

Next ==
    \/ DoNewBlock
    \/ DoChangeBlock
    \/ VerifyChainOp
    \/ DoSetNumber
    \/ DoSetRange

Spec == Init /\ [][Next]_vars

\* ------------------------------------------- CreateMerkleRoot on its own

\* The strings CreateMerkleRoot is applied to: "", "a", "b", "aa".
MerkleTxSet == { EmptyString, TxA, TxB, TxAA }

\* The lists of at most MaxMerkleLen of them.
MerkleInputs == UNION { [1..k -> MerkleTxSet] : k \in 0..MaxMerkleLen }

InitMerkle ==
    /\ Blocks = << >>
    /\ NumTransactionsPerBlock = DefaultNumTransactionsPerBlock
    /\ BlockHashMin = RepeatZero(4)
    /\ BlockHashMax = RepeatZero(5)
    /\ lastOp = "main"
    /\ lastIndex = 0
    /\ ret = TRUE
    /\ changed = FALSE
    /\ merkle \in { [ transactions |-> t, root |-> EmptyString, done |-> FALSE ] :
                    t \in MerkleInputs }

CallCreateMerkleRoot ==
    /\ ~merkle.done
    /\ merkle' = [ merkle EXCEPT !.root = CreateMerkleRoot(merkle.transactions),
                                 !.done = TRUE ]
    /\ UNCHANGED << Blocks, config, lastOp, lastIndex, ret, changed >>

NextMerkle == CallCreateMerkleRoot

SpecMerkle == InitMerkle /\ [][NextMerkle]_vars

\* ------------------------------------------ the operations on a ledger value

\* The ledger: the Blockchain the operations are called on.
bc ==
    [ Blocks |-> Blocks, NumTransactionsPerBlock |-> NumTransactionsPerBlock,
      BlockHashMin |-> BlockHashMin, BlockHashMax |-> BlockHashMax ]

\* The ledger b after NewBlock(transactions).
NewBlockOn(b, transactions) ==
    IF Len(transactions) = 0 THEN b
    ELSE IF Len(transactions) >= b.NumTransactionsPerBlock
    THEN [ b EXCEPT !.Blocks = Append(b.Blocks, NewBlock_blockOn(b.Blocks, transactions)) ]
    ELSE b

\* What ChangeBlock(index, newTransaction) returns on the ledger b.
ChangeBlockReturns(b, index) == index >= 0 /\ index < Len(b.Blocks)

\* The ledger b after ChangeBlock(index, newTransaction).
ChangeBlockOn(b, index, newTransaction) ==
    IF index >= 0 /\ index < Len(b.Blocks)
    THEN [ b EXCEPT !.Blocks[index + 1] =
                        ChangeBlock_newBlockOn(b.Blocks, index, newTransaction) ]
    ELSE b

\* The ledger b after setNumberOfTransactionsPerBlock(numTransactions).
setNumberOfTransactionsPerBlockOn(b, numTransactions) ==
    IF numTransactions >= 1
    THEN [ b EXCEPT !.NumTransactionsPerBlock = numTransactions ]
    ELSE b

\* The ledger b after setBlockHashRangeForBlockCreation(min, max).
setBlockHashRangeForBlockCreationOn(b, min, max) ==
    [ b EXCEPT !.BlockHashMin = min, !.BlockHashMax = max ]

\* ----------------------------------------------------------------- claims

\* The last block of the ledger.
LastBlock == Blocks[Len(Blocks)]

\* blocks[i].previousHash == blocks[i-1].currentHash for every adjacent pair.
Linked(blocks) ==
    \A i \in 1..(Len(blocks) - 1) : blocks[i + 1].PreviousHash = blocks[i].CurrentHash

\* C1: a block appended by NewBlock has a CurrentHash with at least 4 leading
\* '0' characters.  The nonce search tests the hash of the empty transaction
\* list, the stored hash is that of the real list, and it fails the test.
C1_AppendedHashMeetsDifficulty ==
    (lastOp = "NewBlock" /\ ret) =>
        HasPrefix(LastBlock.CurrentHash, RepeatZero(leadingZeros))

\* C2: from the empty ledger, after any calls of NewBlock (accepted or
\* rejected) and of the setters, as long as no ChangeBlock has replaced a
\* block, VerifyChain answers true.
C2_VerifiesWithoutChange ==
    ~changed =>
        /\ VerifyChain(Blocks)
        /\ (lastOp = "VerifyChain" => ret)

C2_Witness ==
    /\ ~changed
    /\ lastOp = "VerifyChain"
    /\ ret
    /\ Len(Blocks) >= 3
    /\ NumTransactionsPerBlock = 2

\* C3: right after ChangeBlock has replaced a block that has a successor, the
\* successor's PreviousHash differs from the new CurrentHash and VerifyChain
\* answers false.
C3_ChangeBreaksLinkage ==
    (lastOp = "ChangeBlock" /\ ret /\ lastIndex < Len(Blocks) - 1) =>
        /\ Blocks[lastIndex + 2].PreviousHash # Blocks[lastIndex + 1].CurrentHash
        /\ ~VerifyChain(Blocks)

C3_Witness ==
    /\ lastOp = "ChangeBlock"
    /\ ret
    /\ Len(Blocks) = 3
    /\ lastIndex = 1
    /\ Blocks[2].PreviousHash = Blocks[1].CurrentHash

\* C4: a NewBlock that appends gives the new last block the CurrentHash of the
\* block that was last before the call as its PreviousHash, and the empty
\* string if the ledger was empty.
C4_AppendLinksToLast ==
    [][ \A transactions \in Batches :
          (NewBlock(transactions) /\ Blocks' # Blocks) =>
              /\ Len(Blocks') = Len(Blocks) + 1
              /\ Blocks'[Len(Blocks')].PreviousHash =
                     IF Len(Blocks) = 0 THEN EmptyString
                     ELSE Blocks[Len(Blocks)].CurrentHash ]_vars

C4_Witness ==
    /\ lastOp = "NewBlock"
    /\ ret
    /\ Len(Blocks) >= 3
    /\ LastBlock.PreviousHash = Blocks[Len(Blocks) - 1].CurrentHash
    /\ Blocks[1].PreviousHash = EmptyString

\* C5: NewBlock with an empty batch, or with fewer transactions than the
\* threshold, leaves the blocks and the configuration as they were; the state
\* of the ledger holds nothing else, so the batch is not remembered.
C5_RejectedBatchChangesNothing ==
    [][ \A transactions \in Batches :
          ( /\ NewBlock(transactions)
            /\ (Len(transactions) = 0 \/ Len(transactions) < NumTransactionsPerBlock) ) =>
              /\ UNCHANGED << Blocks, config >>
              /\ ret' = FALSE ]_vars

C5_Witness ==
    /\ lastOp = "NewBlock"
    /\ ~ret
    /\ Len(Blocks) >= 1
    /\ NumTransactionsPerBlock = 2

\* C6: ChangeBlock with an index below 0 or not below the number of blocks
\* completes, answers false and leaves the blocks and the configuration as
\* they were.
C6_OutOfRangeChangesNothing ==
    [][ \A index \in -1..MaxLedgerTx : \A t \in TxSet :
          (ChangeBlock(index, t) /\ (index < 0 \/ index >= Len(Blocks))) =>
              /\ ret' = FALSE
              /\ UNCHANGED << Blocks, config >> ]_vars

C6_Witness ==
    /\ lastOp = "ChangeBlock"
    /\ ~ret
    /\ Len(Blocks) >= 1
    /\ lastIndex = Len(Blocks)

\* C7: setNumberOfTransactionsPerBlock(n) sets the threshold to n when
\* n >= 1, and changes nothing of the ledger when n < 1; the threshold is at
\* least 1 in every reachable state.
C7_ThresholdAtLeastOne ==
    /\ [](NumTransactionsPerBlock >= 1)
    /\ [][ \A n \in Thresholds :
             setNumberOfTransactionsPerBlock(n) =>
                 /\ n >= 1 => NumTransactionsPerBlock' = n
                 /\ n < 1 => UNCHANGED NumTransactionsPerBlock
                 /\ UNCHANGED << Blocks, BlockHashMin, BlockHashMax >> ]_vars

C7_Witness ==
    /\ lastOp = "setNumberOfTransactionsPerBlock"
    /\ ~ret
    /\ NumTransactionsPerBlock = 2

\* C8, as stated: the root of [a, b, c] is hash(hash(a+b) + c).
C8_OddTailUnhashed ==
    (merkle.done /\ Len(merkle.transactions) = 3) =>
        LET a == merkle.transactions[1]
            b == merkle.transactions[2]
            c == merkle.transactions[3]
        IN  merkle.root = Sum256Hex(Sum256Hex(a \o b) \o c)

\* C8, amended: the root of [a, b, c] is hash(hash(a+b) + hash(c)): the odd
\* tail c is paired with the empty string and hashed at the first level.
C8_OddTailHashed ==
    (merkle.done /\ Len(merkle.transactions) = 3) =>
        LET a == merkle.transactions[1]
            b == merkle.transactions[2]
            c == merkle.transactions[3]
        IN  merkle.root = Sum256Hex(Sum256Hex(a \o b) \o Sum256Hex(c \o EmptyString))

C8_Witness ==
    /\ merkle.done
    /\ merkle.transactions = << TxA, TxB, TxAA >>

\* One level of the reduction as the specification states it: the k-th element
\* is the hash of the k-th pair, the second of an odd last pair being "".
PairLevel(ts) ==
    [ k \in 1..((Len(ts) + 1) \div 2) |->
        Sum256Hex(ts[2 * k - 1] \o (IF 2 * k <= Len(ts) THEN ts[2 * k] ELSE EmptyString)) ]

\* The levels repeated until one element remains.
RECURSIVE Reduce(_)
Reduce(ts) == IF Len(ts) <= 1 THEN ts ELSE Reduce(PairLevel(ts))

\* C9: CreateMerkleRoot answers "" for [], x itself for [x], hash(a+b) for
\* [a, b], and for a longer list the one element left by the repeated levels.
C9_MerkleReduction ==
    merkle.done =>
        LET ts == merkle.transactions
        IN  /\ Len(ts) = 0 => merkle.root = EmptyString
            /\ Len(ts) = 1 => merkle.root = ts[1]
            /\ Len(ts) = 2 => merkle.root = Sum256Hex(ts[1] \o ts[2])
            /\ Len(ts) >= 2 => << merkle.root >> = Reduce(ts)

C9_Witness ==
    /\ merkle.done
    /\ Len(merkle.transactions) = MaxMerkleLen
    /\ merkle.transactions[1] # merkle.transactions[2]

\* The blocks with nothing but their two hash fields.
HashFieldsOnly(blocks) ==
    [ i \in 1..Len(blocks) |->
        [ ZeroBlock EXCEPT !.PreviousHash = blocks[i].PreviousHash,
                           !.CurrentHash = blocks[i].CurrentHash ] ]

\* C10: VerifyChain answers true exactly when every block after the first
\* holds its predecessor's CurrentHash as PreviousHash; so it does on an empty
\* and on a one-block ledger; its answer is that for the blocks stripped to
\* their two hash fields; and the call changes nothing of the ledger.
C10_VerifyIffLinked ==
    /\ [](/\ VerifyChain(Blocks) = Linked(Blocks)
          /\ Len(Blocks) <= 1 => VerifyChain(Blocks)
          /\ VerifyChain(HashFieldsOnly(Blocks)) = VerifyChain(Blocks))
    /\ [][ VerifyChainOp =>
             /\ ret' = Linked(Blocks)
             /\ UNCHANGED << Blocks, config >> ]_vars

C10_Witness ==
    /\ lastOp = "VerifyChain"
    /\ ~ret
    /\ Len(Blocks) >= 3
    /\ Blocks[2].PreviousHash = Blocks[1].CurrentHash

\* The ledger with another hash range.
WithHashRange(b, r) == [ b EXCEPT !.BlockHashMin = r[1], !.BlockHashMax = r[2] ]

\* C11: setBlockHashRangeForBlockCreation stores its two strings and changes
\* neither the blocks nor the threshold; and every call of every operation
\* leaves the blocks and the threshold, and returns, what the same call yields
\* on a ledger that differs from this one in its hash range only.  So two
\* ledgers that differ in their hash ranges only and are given the same calls
\* keep equal blocks, thresholds and VerifyChain results.
C11_HashRangeIsInert ==
    [][ /\ \A r \in HashRanges :
             setBlockHashRangeForBlockCreation(r[1], r[2]) =>
                 /\ BlockHashMin' = r[1] /\ BlockHashMax' = r[2]
                 /\ UNCHANGED << Blocks, NumTransactionsPerBlock >>
        /\ \A other \in HashRanges :
             LET twin == WithHashRange(bc, other)
             IN  /\ \A transactions \in Batches :
                       NewBlock(transactions) =>
                           LET after == NewBlockOn(twin, transactions)
                           IN  /\ Blocks' = after.Blocks
                               /\ NumTransactionsPerBlock' = after.NumTransactionsPerBlock
                               /\ ret' = (after.Blocks # twin.Blocks)
                 /\ \A index \in -1..MaxLedgerTx : \A t \in TxSet :
                       ChangeBlock(index, t) =>
                           LET after == ChangeBlockOn(twin, index, t)
                           IN  /\ Blocks' = after.Blocks
                               /\ NumTransactionsPerBlock' = after.NumTransactionsPerBlock
                               /\ ret' = ChangeBlockReturns(twin, index)
                 /\ VerifyChainOp =>
                       /\ ret' = VerifyChain(twin.Blocks)
                       /\ Blocks' = twin.Blocks
                       /\ NumTransactionsPerBlock' = twin.NumTransactionsPerBlock
                 /\ \A n \in Thresholds :
                       setNumberOfTransactionsPerBlock(n) =>
                           LET after == setNumberOfTransactionsPerBlockOn(twin, n)
                           IN  /\ Blocks' = after.Blocks
                               /\ NumTransactionsPerBlock' = after.NumTransactionsPerBlock
                 /\ \A r \in HashRanges :
                       setBlockHashRangeForBlockCreation(r[1], r[2]) =>
                           LET after == setBlockHashRangeForBlockCreationOn(twin, r[1], r[2])
                           IN  /\ Blocks' = after.Blocks
                               /\ NumTransactionsPerBlock' = after.NumTransactionsPerBlock
      ]_vars

\* A block was appended under the second hash range, after one under the first.
C11_Witness ==
    /\ lastOp = "NewBlock"
    /\ ret
    /\ Len(Blocks) >= 2
    /\ BlockHashMin = RepeatZero(2)
    /\ Blocks[1].Nonce # Blocks[2].Nonce

\* C12: in every reachable state every stored block has a non-empty
\* transaction list, the Merkle root of that list as MerkleRoot, and the hash
\* of its transactions, nonce, PreviousHash and MerkleRoot as CurrentHash.
C12_BlocksAreConsistent ==
    \A i \in 1..Len(Blocks) :
        LET block == Blocks[i]
        IN  /\ Len(block.Transaction) > 0
            /\ block.MerkleRoot = CreateMerkleRoot(block.Transaction)
            /\ block.CurrentHash =
                   CreateHash(block.Transaction, block.Nonce, block.PreviousHash,
                              block.MerkleRoot)

\* An appended block follows a rewritten one whose successor link is stale.
C12_Witness ==
    /\ Len(Blocks) >= 3
    /\ Len(Blocks[1].Transaction) = 2
    /\ Blocks[2].PreviousHash # Blocks[1].CurrentHash
    /\ lastOp = "NewBlock"
    /\ ret

\* C13: a ChangeBlock(index, tx) that answers true replaces only the block at
\* index: the new block's transactions are the old ones followed by tx, its
\* PreviousHash is the CurrentHash of the block before it (the empty string at
\* index 0), and the other blocks, the number of blocks and the configuration
\* are as before.
C13_RewriteReplacesOnlyIndex ==
    [][ \A index \in -1..MaxLedgerTx : \A tx \in TxSet :
            (ChangeBlock(index, tx) /\ ret')
                => /\ index >= 0 /\ index < Len(Blocks)
                   /\ Len(Blocks') = Len(Blocks)
                   /\ \A k \in 1..Len(Blocks) : k # index + 1 => Blocks'[k] = Blocks[k]
                   /\ Blocks'[index + 1].Transaction = Append(Blocks[index + 1].Transaction, tx)
                   /\ Blocks'[index + 1].PreviousHash =
                          (IF index = 0 THEN EmptyString ELSE Blocks[index].CurrentHash)
                   /\ UNCHANGED config ]_vars

\* A rewrite of a block that has a successor, which keeps its stale link.
C13_Witness ==
    /\ lastOp = "ChangeBlock"
    /\ ret
    /\ lastIndex + 1 < Len(Blocks)
    /\ Blocks[lastIndex + 2].PreviousHash # Blocks[lastIndex + 1].CurrentHash

\* The list s is the beginning of the list t.
IsPrefix(s, t) == Len(s) <= Len(t) /\ SubSeq(t, 1, Len(s)) = s

\* C14: the ledger never gets shorter and its blocks keep their places: after
\* any step each old position holds its old block, or that block rewritten with
\* further transactions; and a NewBlock that answers true adds exactly one
\* block, at the end, holding the batch, with every earlier block and the
\* configuration as before.
C14_AppendOnly ==
    [][ /\ Len(Blocks') >= Len(Blocks)
        /\ \A k \in 1..Len(Blocks) :
               \/ Blocks'[k] = Blocks[k]
               \/ /\ lastOp' = "ChangeBlock"
                  /\ lastIndex' = k - 1
                  /\ IsPrefix(Blocks[k].Transaction, Blocks'[k].Transaction)
        /\ \A transactions \in Batches :
               (NewBlock(transactions) /\ ret')
                   => /\ Len(Blocks') = Len(Blocks) + 1
                      /\ SubSeq(Blocks', 1, Len(Blocks)) = Blocks
                      /\ Blocks'[Len(Blocks')].Transaction = transactions
                      /\ UNCHANGED config ]_vars

\* A two-transaction block has just been appended after a one-transaction block.
C14_Witness ==
    /\ lastOp = "NewBlock"
    /\ ret
    /\ Len(Blocks) = 2
    /\ Len(Blocks[1].Transaction) = 1
    /\ Len(Blocks[2].Transaction) = 2

\* C15: in every reachable state with a non-empty ledger the first block's
\* PreviousHash is the empty string, rewrites at index 0 included.
C15_FirstBlockHasSentinel ==
    Len(Blocks) > 0 => Blocks[1].PreviousHash = EmptyString

\* The first block has just been rewritten.
C15_Witness ==
    /\ lastOp = "ChangeBlock"
    /\ ret
    /\ lastIndex = 0
    /\ Len(Blocks[1].Transaction) >= 2

\* The lists that hold the elements of ts in another order.
Reorderings(ts) ==
    { [ i \in 1..Len(ts) |-> ts[p[i]] ] :
        p \in { q \in [1..Len(ts) -> 1..Len(ts)] :
                  \A i, j \in 1..Len(ts) : q[i] = q[j] => i = j } } \ { ts }

\* C16: every list that holds the transactions in another order has another
\* Merkle root.
C16_ReorderingChangesRoot ==
    merkle.done =>
        \A other \in Reorderings(merkle.transactions) :
            CreateMerkleRoot(other) # merkle.root

\* The hash FindValidNonce tests for a nonce: that of the empty transaction
\* list meets the prefix of leadingZeros '0' characters.
SearchHashMeetsPrefix(nonce, previousHash, merkleRoot) ==
    HasPrefix(CreateHash(<< >>, nonce, previousHash, merkleRoot), RepeatZero(leadingZeros))

\* C17: the nonce of every stored block, appended or rewritten, is the least
\* n >= 0 for which the hash of the empty transaction list, n, the block's
\* PreviousHash and its MerkleRoot begins with leadingZeros '0' characters.
C17_NonceIsLeast ==
    \A i \in 1..Len(Blocks) :
        LET block == Blocks[i]
        IN  /\ block.Nonce >= 0
            /\ SearchHashMeetsPrefix(block.Nonce, block.PreviousHash, block.MerkleRoot)
            /\ \A n \in 0..(block.Nonce - 1) :
                   ~SearchHashMeetsPrefix(n, block.PreviousHash, block.MerkleRoot)

\* The ledger holds an appended block and a rewritten one; one search stopped
\* at nonce 0 and another went past nonce 1.
C17_Witness ==
    /\ changed
    /\ Len(Blocks) >= 2
    /\ \E i \in 1..Len(Blocks) : Blocks[i].Nonce = 0
    /\ \E i \in 1..Len(Blocks) : Blocks[i].Nonce >= 2

\* The ledger b after ChangeBlock(j, tx), ChangeBlock(j + 1, tx), ... up to its
\* last block, in ascending order.
RECURSIVE RewriteFrom(_, _, _)
RewriteFrom(b, j, tx) ==
    IF j >= Len(b.Blocks) THEN b
    ELSE RewriteFrom(ChangeBlockOn(b, j, tx), j + 1, tx)

\* C19: a ChangeBlock at an index j > 0 that answers true leaves block j linked
\* to block j - 1; on a ledger that verifies, a rewrite of the last block
\* leaves it verifying, and a rewrite at any index i followed by rewrites of
\* i + 1, ..., the last index in ascending order makes it verify again.
C19_CascadeRepairsLinkage ==
    /\ (lastOp = "ChangeBlock" /\ ret /\ lastIndex > 0)
           => Blocks[lastIndex + 1].PreviousHash = Blocks[lastIndex].CurrentHash
    /\ (VerifyChain(Blocks) /\ Len(Blocks) > 0)
           => \A tx \in TxSet :
                  /\ ChangeBlockReturns(bc, Len(Blocks) - 1)
                  /\ VerifyChain(ChangeBlockOn(bc, Len(Blocks) - 1, tx).Blocks)
    /\ VerifyChain(Blocks)
           => \A i \in 0..(Len(Blocks) - 1) : \A tx, next \in TxSet :
                  VerifyChain(RewriteFrom(ChangeBlockOn(bc, i, tx), i + 1, next).Blocks)

\* Both blocks of a ledger have been rewritten, the second after the first,
\* and the ledger verifies.
C19_Witness ==
    /\ lastOp = "ChangeBlock"
    /\ ret
    /\ lastIndex = 1
    /\ Len(Blocks) = 2
    /\ Len(Blocks[1].Transaction) = 2
    /\ Len(Blocks[2].Transaction) = 2
    /\ VerifyChain(Blocks)

====
